---- MODULE Spec2Model ----
(***************************************************************************)
(* Model of src/pipeline/0a-preprocess.js: the record-reconstruction       *)
(* engine (discoverCanonicalTabs, reconstruct, preprocessFile) and the     *)
(* file-set drivers (preprocessFolder, preprocess).                        *)
(*                                                                         *)
(* Five specifications share the variables:                                *)
(*   Spec        one file through preprocessFile, line by line             *)
(*   DiscoverSpec  one file through discoverCanonicalTabs alone            *)
(*   PairSpec    two files inside preprocessFile at once, interleaved at   *)
(*               the line-read suspension points of the event loop         *)
(*   DriverSpec  a driver handing its files to the pLimit worker pool      *)
(*   StreamSpec  reconstruct with the sinks of its output streams followed *)
(*                                                                         *)
(* Text is a sequence of tokens.  A token stands for a run of characters   *)
(* of one kind, so that the length and the delimiter count of a string are *)
(* computed as the code computes them:                                     *)
(*   TAB         one delimiter character (char code 9)                     *)
(*   LF          one newline character                                     *)
(*   "a", "b"    one ordinary character                                    *)
(*   "bsl", "n"  the two characters of the default newlineReplacement      *)
(*   "H"         a run of 10 decimal digits                                *)
(*   "I"         a run of 13 decimal digits                                *)
(*   "B"         a run of 2^26 ordinary characters                         *)
(*   "K"         a run of 2^14 ordinary characters                         *)
(***************************************************************************)
EXTENDS Integers, Sequences, FiniteSets, TLC

VARIABLES
  lines,          \* the physical lines readline yields for the input file
  override,       \* config.canonicalTabs, or NoOverride when undefined
  paddingTolerance, \* config.paddingTolerance
  pc,             \* position in preprocessFile
  i,              \* number of physical lines consumed in the current pass
  scanned,        \* history: physical lines discoverCanonicalTabs has read
  absTabs,        \* discoverCanonicalTabs: running delimiter count
  anchorTabIdx,   \* discoverCanonicalTabs: recorded anchor positions
  canonicalTabs,  \* T used by reconstruct (NoOverride until known)
  cur,            \* reconstruct: accumulator text
  curTabs,        \* reconstruct: accumulator delimiter count
  pendingNL,      \* reconstruct: pending-join marker
  records, ok, bad, \* reconstruct: counters
  out,            \* chunks written to the accepted stream, in order
  rej,            \* chunks written to the rejected stream, in order
  log,            \* history: one entry per chunk written (not read by the code)
  outStream,      \* reconstruct: "none", "open", "ending" or "ended"
  rejStream,      \* reconstruct: "none", "open", "ending" or "ended"
  lastIndex,      \* TRIPLE_ANCHOR_RE_G.lastIndex, shared by every file
  parked,         \* the locals of the files suspended at a line read
  driver,         \* which driver runs: "preprocessFolder" or "preprocess"
  parallelism,    \* the concurrency handed to pLimit
  inputFiles,     \* per input file, how its preprocessFile will end
  task,           \* per input file, where its limit(...) promise stands
  queue,          \* pLimit: the files waiting for a slot, oldest first
  activeCount,    \* pLimit: the number of functions running
  returned,       \* what the driver has handed to its caller
  gzip,           \* whether the accepted output goes through createGzip()
  compressed,     \* the chunks the gzip stream has consumed
  delivered,      \* per output, the chunks its final sink has taken
  finished        \* per output, whether its final sink has emitted 'finish'

\* the variables local to one call of preprocessFile
fileVars == <<lines, override, paddingTolerance, pc, i, scanned, absTabs,
              anchorTabIdx, canonicalTabs, cur, curTabs, pendingNL, records,
              ok, bad, out, rej, log, outStream, rejStream>>

\* the variables of the event loop that runs several files
poolVars == <<lastIndex, parked>>

\* the variables of a driver
driverVars == <<driver, parallelism, inputFiles, task, queue, activeCount,
                returned>>

\* the variables of the sinks behind the two output streams
sinkVars == <<gzip, compressed, delivered, finished>>

vars == <<fileVars, poolVars, driverVars, sinkVars>>

----------------------------------------------------------------------------
(* Bounds of the model *)

\* A file has at most MaxLines physical lines.
MaxLines == 3

(* Program constants *)

MAX_CUR_LEN == 67108864
MAX_TAB_MULTIPLIER == 8
DEFAULT_PADDING_TOLERANCE == 3

TAB == "TAB"
LF == "LF"
NoOverride == -1

\* DEFAULT_CONFIG.newlineReplacement: a backslash followed by the letter n.
newlineReplacement == <<"bsl", "n">>

----------------------------------------------------------------------------
(* Strings *)

\* Number of characters a token stands for.
TokLen(x) == CASE x = "H" -> 10
               [] x = "I" -> 13
               [] x = "B" -> 67108864
               [] x = "K" -> 16384
               [] OTHER -> 1

RECURSIVE StrLen(_)
\* String.prototype.length
StrLen(s) == IF s = <<>> THEN 0 ELSE TokLen(Head(s)) + StrLen(Tail(s))

RECURSIVE countTabs(_)
\* countTabs / countTabsLocal: number of characters with code 9
countTabs(s) == IF s = <<>> THEN 0
                ELSE (IF Head(s) = TAB THEN 1 ELSE 0) + countTabs(Tail(s))

\* String.prototype.slice(a, b) with 0 <= a, b offsets counted in tokens
Slice(s, a, b) == SubSeq(s, a + 1, b)

RECURSIVE Repeat(_, _)
\* String.prototype.repeat
Repeat(x, n) == IF n <= 0 THEN <<>> ELSE <<x>> \o Repeat(x, n - 1)

----------------------------------------------------------------------------
(* The anchor pattern TRIPLE_ANCHOR_RE_G:                                  *)
(*   (?:^|\t)([0-9]{10})\t([0-9]{10,20})\t([0-9]{10,20})(?=\t|$)  flag g   *)
(* Offsets are 0-based and count tokens; token p+1 follows offset p.       *)

IsDigit(x) == x \in {"H", "I"}

RECURSIVE DigitRunEnd(_, _)
\* offset at which the maximal run of digits starting at offset p ends
DigitRunEnd(s, p) ==
  IF p < Len(s) /\ IsDigit(s[p + 1]) THEN DigitRunEnd(s, p + 1) ELSE p

\* [0-9]{lo,hi} anchored at offset p and required to be followed by a TAB
\* (or, when endOk, by the end of the string): its end offset, or -1.  The run must be taken
\* whole, since the character after a shorter prefix is still a digit.
DigitsThen(s, p, lo, hi, endOk) ==
  LET e == DigitRunEnd(s, p)
      n == StrLen(Slice(s, p, e))
      atEnd == e = Len(s)
      atTab == e < Len(s) /\ s[e + 1] = TAB
  IN IF n >= lo /\ n <= hi /\ (atTab \/ (endOk /\ atEnd)) THEN e ELSE -1

\* ([0-9]{10})\t([0-9]{10,20})\t([0-9]{10,20})(?=\t|$) at offset p:
\* the offset where the match ends, or -1
BodyEnd(s, p) ==
  LET e1 == DigitsThen(s, p, 10, 10, FALSE)
      e2 == IF e1 = -1 THEN -1 ELSE DigitsThen(s, e1 + 1, 10, 20, FALSE)
      e3 == IF e2 = -1 THEN -1 ELSE DigitsThen(s, e2 + 1, 10, 20, TRUE)
  IN e3

\* the whole pattern tried at start offset p: end offset of the match, or -1
MatchEnd(s, p) ==
  IF p = 0 /\ BodyEnd(s, 0) # -1 THEN BodyEnd(s, 0)
  ELSE IF p < Len(s) /\ s[p + 1] = TAB THEN BodyEnd(s, p + 1)
  ELSE -1

\* TRIPLE_ANCHOR_RE_G.exec(s) with lastIndex = from: the leftmost match at or
\* after `from`, as [index, lastIndex]; index = -1 stands for null
Exec(s, from) ==
  LET starts == {p \in from..Len(s) : MatchEnd(s, p) # -1}
  IN IF starts = {} THEN [index |-> -1, lastIndex |-> 0]
     ELSE LET p == CHOOSE q \in starts : \A r \in starts : q <= r
          IN [index |-> p, lastIndex |-> MatchEnd(s, p)]

----------------------------------------------------------------------------
(* discoverCanonicalTabs *)

\* line.replace(/\r/g, '')
StripCR(raw) == SelectSeq(raw, LAMBDA x : x # "CR")

RECURSIVE ScanAnchors(_, _, _, _)
\* the while loop over the anchors of one physical line and the ingestion of
\* its tail: the values of absTabs and anchorTabIdx after the line, and the
\* lastIndex the failed exec that ends the loop leaves in the regex
ScanAnchors(line, pos, abs, idx) ==
  LET m == Exec(line, pos)
  IN IF m.index # -1
     THEN LET before == Slice(line, pos, m.index)
              abs2 == abs + countTabs(before)
          IN ScanAnchors(line, m.lastIndex, abs2, Append(idx, abs2))
     ELSE [absTabs |-> abs + countTabs(Slice(line, pos, Len(line))),
           anchorTabIdx |-> idx, lastIndex |-> m.lastIndex]

\* deltas between consecutive recorded positions, in file order
Deltas(idx) == [k \in 1..(Len(idx) - 1) |-> idx[k + 1] - idx[k]]

\* hist.get(delta) once the histogram is built
Freq(ds, d) == Cardinality({k \in 1..Len(ds) : ds[k] = d})

RECURSIVE HistKeys(_, _)
\* the keys of the Map `hist` in insertion order
HistKeys(ds, seen) ==
  IF ds = <<>> THEN <<>>
  ELSE IF Head(ds) \in seen THEN HistKeys(Tail(ds), seen)
  ELSE <<Head(ds)>> \o HistKeys(Tail(ds), seen \cup {Head(ds)})

RECURSIVE PickModeFirstWins(_, _, _, _)
\* fault: a selection loop without the tie-break: of the deltas of maximal
\* frequency the first inserted stays
PickModeFirstWins(keys, ds, canon, modeFreq) ==
  IF keys = <<>> THEN canon
  ELSE LET delta == Head(keys)
           freq == Freq(ds, delta)
       IN IF freq > modeFreq
          THEN PickModeFirstWins(Tail(keys), ds, delta, freq)
          ELSE PickModeFirstWins(Tail(keys), ds, canon, modeFreq)

RECURSIVE PickMode(_, _, _, _)
\* the loop over hist.entries() selecting canonicalTabs
PickMode(keys, ds, canon, modeFreq) ==
  IF keys = <<>> THEN canon
  ELSE LET delta == Head(keys)
           freq == Freq(ds, delta)
       IN IF freq > modeFreq \/ (freq = modeFreq /\ delta > canon)
          THEN PickMode(Tail(keys), ds, delta, freq)
          ELSE PickMode(Tail(keys), ds, canon, modeFreq)

\* the value of canonicalTabs computed from the recorded positions
ModeDelta(idx) == PickMode(HistKeys(Deltas(idx), {}), Deltas(idx), 0, -1)

----------------------------------------------------------------------------
(* reconstruct: the engine state is the record                             *)
(*   [cur, curTabs, pendingNL, records, ok, bad, out, rej, log, at, threw] *)
(* where `at` is the number of physical lines read so far (history only)   *)
(* and `threw` tells that an exception left the pass.                      *)

\* floor(a / b) for b > 0
FloorDiv(a, b) == a \div b

RECURSIVE SplitTab(_)
\* String.prototype.split("\t"): the fields of s
SplitTab(s) ==
  LET hits == {k \in 1..Len(s) : s[k] = TAB}
  IN IF hits = {} THEN <<s>>
     ELSE LET k == CHOOSE q \in hits : \A r \in hits : q <= r
          IN <<SubSeq(s, 1, k - 1)>> \o SplitTab(SubSeq(s, k + 1, Len(s)))

RECURSIVE JoinTab(_)
\* Array.prototype.join("\t")
JoinTab(parts) ==
  IF parts = <<>> THEN <<>>
  ELSE IF Len(parts) = 1 THEN parts[1]
  ELSE parts[1] \o <<TAB>> \o JoinTab(Tail(parts))

\* Array.prototype.slice(0, n) for n >= 0
Take(parts, n) == SubSeq(parts, 1, IF n < Len(parts) THEN n ELSE Len(parts))

\* cur + "\n" : the chunk written for an exact match
ExactChunk(s) == s \o <<LF>>

\* fault: PadChunk that appends one delimiter too few
PadChunkShort(s, cols, targetCols) ==
  s \o Repeat(TAB, targetCols - cols - 1) \o <<LF>>

\* cur + "\t".repeat(targetCols - cols) + "\n"
PadChunk(s, cols, targetCols) == s \o Repeat(TAB, targetCols - cols) \o <<LF>>

\* fault: TruncChunk that keeps one field too many
TruncChunkKeepExtra(s, targetCols) ==
  JoinTab(Take(SplitTab(s), targetCols + 1)) \o <<LF>>

\* cur.split("\t").slice(0, targetCols).join("\t") + "\n"
TruncChunk(s, targetCols) == JoinTab(Take(SplitTab(s), targetCols)) \o <<LF>>

\* fault: RejectChunk that cuts the record at its first delimiter
RejectChunkTrimmed(s) == SplitTab(s)[1] \o <<LF>>

\* cur + "\n" : the chunk written to the rejected stream
RejectChunk(s) == s \o <<LF>>

\* one history entry per write: the stream, the path taken, the accumulator
\* and its count at the time, the chunk, and the line being processed
LogEntry(e, dest, via, chunk) ==
  [dest |-> dest, via |-> via, src |-> e.cur, tabs |-> e.curTabs,
   chunk |-> chunk, at |-> e.at]

\* fault: writeOut that puts the chunk in front of the earlier ones
writeOutFront(e, via, chunk) ==
  [e EXCEPT !.out = <<chunk>> \o @,
            !.log = Append(@, LogEntry(e, "out", via, chunk))]

\* writeOut(s): outStream.write(s)
writeOut(e, via, chunk) ==
  [e EXCEPT !.out = Append(@, chunk),
            !.log = Append(@, LogEntry(e, "out", via, chunk))]

\* fault: writeRej without a rejected stream (rejStream null): nothing written
writeRejNull(e, via, chunk) == e

\* writeRej(s): rejStream.write(s); preprocessFile always passes a rejectsUri
writeRej(e, via, chunk) ==
  [e EXCEPT !.rej = Append(@, chunk),
            !.log = Append(@, LogEntry(e, "rej", via, chunk))]

\* looksLikeFragment(tabsInRow)
looksLikeFragment(tabsInRow) ==
  IF tabsInRow < 10 THEN TRUE
  ELSE IF tabsInRow < FloorDiv(canonicalTabs * 6, 10) THEN TRUE
  ELSE FALSE

\* fault: a guardrail that tests the delimiter count only
GuardTrippedTabsOnly(e) == e.curTabs > canonicalTabs * MAX_TAB_MULTIPLIER

\* the size/delimiter guardrail test of appendToCur
GuardTripped(e) ==
  StrLen(e.cur) > MAX_CUR_LEN \/ e.curTabs > canonicalTabs * MAX_TAB_MULTIPLIER

\* the guardrail body: writeRej(cur + "\n"); bad++; reset
GuardFlush(e) ==
  [writeRej(e, "guard", RejectChunk(e.cur))
     EXCEPT !.bad = @ + 1, !.cur = <<>>, !.curTabs = 0, !.pendingNL = FALSE]

\* fault: appendToCur that never splices the placeholder
appendToCurNoJoin(e, str, consumePending) ==
  IF str = <<>> THEN e
  ELSE LET e2 == [e EXCEPT !.cur = @ \o str, !.curTabs = @ + countTabs(str),
                           !.pendingNL = FALSE]
       IN IF GuardTripped(e2) THEN GuardFlush(e2) ELSE e2

\* fault: appendToCur that sets the count to that of the appended text
appendToCurLastCount(e, str, consumePending) ==
  IF str = <<>> THEN e
  ELSE LET e1 == IF consumePending /\ e.pendingNL
                 THEN [e EXCEPT !.cur = @ \o newlineReplacement,
                                !.pendingNL = FALSE]
                 ELSE e
           e2 == [e1 EXCEPT !.cur = @ \o str, !.curTabs = countTabs(str)]
       IN IF GuardTripped(e2) THEN GuardFlush(e2) ELSE e2

\* appendToCur(str, consumePending)
appendToCur(e, str, consumePending) ==
  IF str = <<>> THEN e
  ELSE LET e1 == IF consumePending /\ e.pendingNL
                 THEN [e EXCEPT !.cur = @ \o newlineReplacement,
                                !.pendingNL = FALSE]
                 ELSE e
           e2 == [e1 EXCEPT !.cur = @ \o str, !.curTabs = @ + countTabs(str)]
       IN IF GuardTripped(e2) THEN GuardFlush(e2) ELSE e2

\* fault: Route whose first test accepts every record of T or more
\* delimiters as it is
RouteLoose(e) ==
  IF e.curTabs >= canonicalTabs
  THEN [writeOut(e, "exact", ExactChunk(e.cur)) EXCEPT !.ok = @ + 1]
  ELSE IF canonicalTabs - e.curTabs <= paddingTolerance
  THEN [writeOut(e, "pad", PadChunk(e.cur, e.curTabs + 1, canonicalTabs + 1))
          EXCEPT !.ok = @ + 1]
  ELSE [writeRej(e, "fragment", RejectChunk(e.cur)) EXCEPT !.bad = @ + 1]

\* "\t".repeat(n) throws a RangeError when n is negative
RepeatThrows(n) == n < 0

\* fault: Route whose padding test lacks cols < targetCols
RouteUnguardedPad(e) ==
  LET cols == e.curTabs + 1
      targetCols == canonicalTabs + 1
  IN IF e.curTabs = canonicalTabs
     THEN [writeOut(e, "exact", ExactChunk(e.cur)) EXCEPT !.ok = @ + 1]
     ELSE IF (targetCols - cols) <= paddingTolerance
     THEN IF RepeatThrows(targetCols - cols)
          THEN [e EXCEPT !.threw = TRUE]
          ELSE [writeOut(e, "pad", PadChunk(e.cur, cols, targetCols))
                  EXCEPT !.ok = @ + 1]
     ELSE IF cols > targetCols /\ (cols - targetCols) <= paddingTolerance
     THEN [writeOut(e, "trunc", TruncChunk(e.cur, targetCols))
             EXCEPT !.ok = @ + 1]
     ELSE IF looksLikeFragment(e.curTabs)
     THEN [writeRej(e, "fragment", RejectChunk(e.cur)) EXCEPT !.bad = @ + 1]
     ELSE [writeRej(e, "malformed", RejectChunk(e.cur)) EXCEPT !.bad = @ + 1]

\* fault: Route that lets the fragment test pick the stream: what is not a
\* fragment is accepted as it is
RouteFragmentTest(e) ==
  LET cols == e.curTabs + 1
      targetCols == canonicalTabs + 1
  IN IF e.curTabs = canonicalTabs
     THEN [writeOut(e, "exact", ExactChunk(e.cur)) EXCEPT !.ok = @ + 1]
     ELSE IF cols < targetCols /\ (targetCols - cols) <= paddingTolerance
     THEN [writeOut(e, "pad", PadChunk(e.cur, cols, targetCols))
             EXCEPT !.ok = @ + 1]
     ELSE IF cols > targetCols /\ (cols - targetCols) <= paddingTolerance
     THEN [writeOut(e, "trunc", TruncChunk(e.cur, targetCols))
             EXCEPT !.ok = @ + 1]
     ELSE IF looksLikeFragment(e.curTabs)
     THEN [writeRej(e, "fragment", RejectChunk(e.cur)) EXCEPT !.bad = @ + 1]
     ELSE [writeOut(e, "malformed", ExactChunk(e.cur)) EXCEPT !.ok = @ + 1]

\* the routing of finalizeCur: the write and the counter it bumps
Route(e) ==
  LET cols == e.curTabs + 1
      targetCols == canonicalTabs + 1
  IN IF e.curTabs = canonicalTabs
     THEN [writeOut(e, "exact", ExactChunk(e.cur)) EXCEPT !.ok = @ + 1]
     ELSE IF cols < targetCols /\ (targetCols - cols) <= paddingTolerance
     THEN IF RepeatThrows(targetCols - cols)
          THEN [e EXCEPT !.threw = TRUE]
          ELSE [writeOut(e, "pad", PadChunk(e.cur, cols, targetCols))
                  EXCEPT !.ok = @ + 1]
     ELSE IF cols > targetCols /\ (cols - targetCols) <= paddingTolerance
     THEN [writeOut(e, "trunc", TruncChunk(e.cur, targetCols))
             EXCEPT !.ok = @ + 1]
     ELSE IF looksLikeFragment(e.curTabs)
     THEN [writeRej(e, "fragment", RejectChunk(e.cur)) EXCEPT !.bad = @ + 1]
     ELSE [writeRej(e, "malformed", RejectChunk(e.cur)) EXCEPT !.bad = @ + 1]

\* fault: a finalizeCur that empties the accumulator and keeps its count
ResetCurKeepCount(r) == IF r.threw THEN r ELSE [r EXCEPT !.cur = <<>>]

\* the statements of finalizeCur after the routing: cur = ""; curTabs = 0;
\* they are not reached when the routing threw
ResetCur(r) == IF r.threw THEN r ELSE [r EXCEPT !.cur = <<>>, !.curTabs = 0]

\* finalizeCur()
finalizeCur(e) ==
  IF e.cur = <<>> THEN e
  ELSE ResetCur(Route([e EXCEPT !.records = @ + 1]))

\* the statement after finalizeCur() in the line loop: pendingNL = false
ClearPending(r) == IF r.threw THEN r ELSE [r EXCEPT !.pendingNL = FALSE]

\* fault: LineStep that closes the record after every physical line
LineStepEveryLine(e, rawLine) ==
  LET line == StripCR(rawLine)
      e0 == [e EXCEPT !.pendingNL = (StrLen(e.cur) > 0)]
      e1 == appendToCur(e0, line, TRUE)
  IN ClearPending(finalizeCur(e1))

\* fault: LineStep that sets pendingNL for every line, also the first of a
\* record
LineStepAlwaysPending(e, rawLine) ==
  LET line == StripCR(rawLine)
      e0 == [e EXCEPT !.pendingNL = TRUE]
      e1 == appendToCur(e0, line, TRUE)
  IN IF e1.curTabs >= canonicalTabs
     THEN ClearPending(finalizeCur(e1))
     ELSE e1

\* fault: LineStep that closes the record only when it has more than T
\* delimiters
LineStepOverT(e, rawLine) ==
  LET line == StripCR(rawLine)
      e0 == [e EXCEPT !.pendingNL = (StrLen(e.cur) > 0)]
      e1 == appendToCur(e0, line, TRUE)
  IN IF e1.curTabs > canonicalTabs
     THEN ClearPending(finalizeCur(e1))
     ELSE e1

\* the body of the for-await loop for one physical line
LineStep(e, rawLine) ==
  LET line == StripCR(rawLine)
      e0 == [e EXCEPT !.pendingNL = (StrLen(e.cur) > 0)]
      e1 == appendToCur(e0, line, TRUE)
  IN IF e1.curTabs >= canonicalTabs
     THEN ClearPending(finalizeCur(e1))
     ELSE e1

\* fault: an end of stream that returns without flushing the accumulator
EofStepNoFlush(e) == e

\* the end-of-stream flush: if (cur) finalizeCur()
EofStep(e) == IF e.cur # <<>> THEN finalizeCur(e) ELSE e

----------------------------------------------------------------------------
(* Inputs *)

\* a physical line made of the given fields
Row(fields) == JoinTab(fields)

Anchor == <<<<"H">>, <<"I">>, <<"I">>>>

\* the physical lines a file is drawn from
LinePool ==
  { <<>>,                                              \* empty line
    <<"a">>,                                           \* no delimiter
    Row(<<<<"a">>, <<"b">>>>),                         \* 1 delimiter
    Row(Anchor),                                       \* 2, anchor in field 1
    Row(<<<<"b">>>> \o Anchor \o <<<<"a">>>>),         \* 4, anchor in field 2
    Row(<<<<"a">>, <<"b">>>> \o Anchor \o <<<<"a">>>>),  \* 5, anchor in field 3
    Row(<<<<"b">>, <<"a">>>> \o Anchor \o <<<<"b">>>>),  \* 5, anchor in field 3
    Row(<<<<"a">>, <<"b">>>> \o Anchor \o <<<<"a">>, <<"b">>>>),  \* 6
    Repeat(TAB, 10),                                   \* 10 delimiters
    Row(<<<<"B", "a">>, <<"a">>>>) }                   \* 1, longer than MAX_CUR_LEN

RECURSIVE FilesOfLen(_)
\* all files of exactly n physical lines
FilesOfLen(n) ==
  IF n = 0 THEN {<<>>}
  ELSE {Append(f, l) : f \in FilesOfLen(n - 1), l \in LinePool}

Files == UNION {FilesOfLen(n) : n \in 0..MaxLines}

\* values of config.canonicalTabs when supplied
OverrideSet == {1, 5}

\* values of config.paddingTolerance
ToleranceSet == {0, DEFAULT_PADDING_TOLERANCE}

----------------------------------------------------------------------------
(* preprocessFile *)

Engine ==
  [cur |-> cur, curTabs |-> curTabs, pendingNL |-> pendingNL,
   records |-> records, ok |-> ok, bad |-> bad,
   out |-> out, rej |-> rej, log |-> log, at |-> i, threw |-> FALSE]

SetEngine(e) ==
  /\ cur' = e.cur
  /\ curTabs' = e.curTabs
  /\ pendingNL' = e.pendingNL
  /\ records' = e.records
  /\ ok' = e.ok
  /\ bad' = e.bad
  /\ out' = e.out
  /\ rej' = e.rej
  /\ log' = e.log

engineVars == <<cur, curTabs, pendingNL, records, ok, bad, out, rej, log>>
inputVars == <<lines, override, paddingTolerance>>
streamVars == <<outStream, rejStream>>

\* the locals of a call of preprocessFile that has just been entered
FileStart ==
  /\ pc = IF override = NoOverride THEN "discover" ELSE "open"
  /\ canonicalTabs = override
  /\ i = 0
  /\ scanned = 0
  /\ absTabs = 0
  /\ anchorTabIdx = <<>>
  /\ cur = <<>>
  /\ curTabs = 0
  /\ pendingNL = FALSE
  /\ records = 0
  /\ ok = 0
  /\ bad = 0
  /\ out = <<>>
  /\ rej = <<>>
  /\ log = <<>>
  /\ outStream = "none"
  /\ rejStream = "none"

\* the driver has not returned to its caller
NotReturned == [kind |-> "pending", list |-> <<>>]

\* the sinks are not followed
NoSink ==
  /\ gzip = FALSE
  /\ compressed = 0
  /\ delivered = [out |-> 0, rej |-> 0]
  /\ finished = [out |-> FALSE, rej |-> FALSE]

\* no driver: preprocessFile is called directly
NoDriver ==
  /\ driver = "none"
  /\ parallelism = 1
  /\ inputFiles = <<>>
  /\ task = <<>>
  /\ queue = <<>>
  /\ activeCount = 0
  /\ returned = NotReturned

\* fault: preprocessFile that runs Discovery whether or not a width is supplied
InitAlwaysDiscover ==
  /\ lines \in Files
  /\ override \in OverrideSet \cup {NoOverride}
  /\ paddingTolerance \in ToleranceSet
  /\ pc = "discover"
  /\ canonicalTabs = override
  /\ i = 0 /\ scanned = 0 /\ absTabs = 0 /\ anchorTabIdx = <<>>
  /\ cur = <<>> /\ curTabs = 0 /\ pendingNL = FALSE
  /\ records = 0 /\ ok = 0 /\ bad = 0
  /\ out = <<>> /\ rej = <<>> /\ log = <<>>
  /\ outStream = "none" /\ rejStream = "none"
  /\ lastIndex = 0
  /\ parked = <<>>
  /\ NoDriver
  /\ NoSink

Init ==
  /\ lines \in Files
  /\ override \in OverrideSet \cup {NoOverride}
  /\ paddingTolerance \in ToleranceSet
  /\ FileStart
  /\ lastIndex = 0
  /\ parked = <<>>
  /\ NoDriver
  /\ NoSink

\* TRIPLE_ANCHOR_RE_G.lastIndex = 0: whatever offset the shared regex holds
\* is overwritten before the first exec of a line
Rewind(shared) == 0

\* the locals and the regex after the scan r of one line
SetScan(r) ==
  /\ absTabs' = r.absTabs
  /\ anchorTabIdx' = r.anchorTabIdx
  /\ lastIndex' = r.lastIndex

\* discoverCanonicalTabs: one iteration of the for-await loop.  The regex is
\* rewound, then exec is called until it fails; nothing is awaited in between.
DiscoverLine ==
  /\ pc = "discover"
  /\ i < Len(lines)
  /\ SetScan(ScanAnchors(StripCR(lines[i + 1]), Rewind(lastIndex), absTabs,
                         anchorTabIdx))
  /\ i' = i + 1
  /\ scanned' = scanned + 1
  /\ UNCHANGED <<inputVars, pc, canonicalTabs, engineVars, streamVars>>
  /\ UNCHANGED <<parked, driverVars, sinkVars>>

\* fault: a test that lets a single anchor through
TooFewAnchorsOnlyZero(idx) == Len(idx) < 1

\* fewer than two anchors were recorded
TooFewAnchors(idx) == Len(idx) < 2

\* fault: a width test that lets 0 through
NotPositiveOnlyNegative(t) == t < 0

\* canonicalTabs <= 0
NotPositive(t) == t <= 0

\* discoverCanonicalTabs after the last line: the two throws, or the return
\* of the mode, after which preprocessFile calls reconstruct
DiscoverEnd ==
  /\ pc = "discover"
  /\ i = Len(lines)
  /\ IF TooFewAnchors(anchorTabIdx)
     THEN pc' = "errNoAnchors" /\ UNCHANGED canonicalTabs
     ELSE IF NotPositive(ModeDelta(anchorTabIdx))
     THEN pc' = "errCanonical" /\ UNCHANGED canonicalTabs
     ELSE pc' = "open" /\ canonicalTabs' = ModeDelta(anchorTabIdx)
  /\ i' = 0
  /\ UNCHANGED <<inputVars, scanned, absTabs, anchorTabIdx, engineVars,
                 streamVars>>
  /\ UNCHANGED <<poolVars, driverVars, sinkVars>>

\* reconstruct: await openRead(uriIn)
ReconstructOpen ==
  /\ pc = "open"
  /\ pc' = "openOut"
  /\ UNCHANGED <<inputVars, i, scanned, canonicalTabs, absTabs, anchorTabIdx,
                 engineVars, streamVars>>
  /\ UNCHANGED <<poolVars, driverVars, sinkVars>>

\* reconstruct: await openWrite(uriOut); the accepted stream is open
OpenOutStream ==
  /\ pc = "openOut"
  /\ pc' = "openRej"
  /\ outStream' = "open"
  /\ UNCHANGED <<inputVars, i, scanned, canonicalTabs, absTabs, anchorTabIdx,
                 engineVars, rejStream>>
  /\ UNCHANGED <<poolVars, driverVars, sinkVars>>

\* reconstruct: await openWrite(rejectsUri) (preprocessFile always passes a
\* rejects path); the rejected stream is open and the line loop starts
OpenRejStream ==
  /\ pc = "openRej"
  /\ pc' = "reconstruct"
  /\ rejStream' = "open"
  /\ UNCHANGED <<inputVars, i, scanned, canonicalTabs, absTabs, anchorTabIdx,
                 engineVars, outStream>>
  /\ UNCHANGED <<poolVars, driverVars, sinkVars>>

\* the engine after a step, and where reconstruct goes on: to `target`, or
\* out of the function when the step threw
Advance(e, target) ==
  /\ SetEngine(e)
  /\ pc' = IF e.threw THEN "errThrown" ELSE target

\* reconstruct: one iteration of the for-await loop
ReconstructLine ==
  /\ pc = "reconstruct"
  /\ i < Len(lines)
  /\ Advance(LineStep([Engine EXCEPT !.at = i + 1], lines[i + 1]),
             "reconstruct")
  /\ i' = i + 1
  /\ UNCHANGED <<inputVars, scanned, canonicalTabs, absTabs, anchorTabIdx,
                 streamVars>>
  /\ UNCHANGED <<poolVars, driverVars, sinkVars>>

\* reconstruct after the last line: the end-of-stream flush, then
\* outStream.end(r) and the await of its callback
ReconstructFlush ==
  /\ pc = "reconstruct"
  /\ i = Len(lines)
  /\ Advance(EofStep(Engine), "endOut")
  /\ outStream' = IF pc' = "endOut" THEN "ending" ELSE outStream
  /\ UNCHANGED <<inputVars, i, scanned, canonicalTabs, absTabs, anchorTabIdx,
                 rejStream>>
  /\ UNCHANGED <<poolVars, driverVars, sinkVars>>

\* the callback of outStream.end(r) runs, the stream being ready to call it:
\* reconstruct goes on to rejStream.end(r) and awaits its callback
OutStreamEndedWhen(ready) ==
  /\ pc = "endOut"
  /\ ready
  /\ pc' = "endRej"
  /\ outStream' = "ended"
  /\ rejStream' = "ending"
  /\ UNCHANGED <<inputVars, i, scanned, canonicalTabs, absTabs, anchorTabIdx,
                 engineVars>>
  /\ UNCHANGED <<poolVars, driverVars, sinkVars>>

\* the callback of rejStream.end(r) runs, the stream being ready to call it:
\* reconstruct returns the counters and preprocessFile resolves
RejStreamEndedWhen(ready) ==
  /\ pc = "endRej"
  /\ ready
  /\ pc' = "done"
  /\ rejStream' = "ended"
  /\ UNCHANGED <<inputVars, i, scanned, canonicalTabs, absTabs, anchorTabIdx,
                 engineVars, outStream>>
  /\ UNCHANGED <<poolVars, driverVars, sinkVars>>

\* with the sinks not followed, a callback of end() may run at any time
\* after the call
OutStreamEnded == OutStreamEndedWhen(TRUE)
RejStreamEnded == RejStreamEndedWhen(TRUE)

Next ==
  \/ DiscoverLine
  \/ DiscoverEnd
  \/ ReconstructOpen
  \/ OpenOutStream
  \/ OpenRejStream
  \/ ReconstructLine
  \/ ReconstructFlush
  \/ OutStreamEnded
  \/ RejStreamEnded

Spec == Init /\ [][Next]_vars

----------------------------------------------------------------------------
(* discoverCanonicalTabs called on its own (it is exported): the scan of   *)
(* the file, then the throw or the return of the mode.  Its files hold an  *)
(* anchor on nearly every line, so that the histogram gets several deltas. *)

\* A file of DiscoverSpec has at most MaxScanLines physical lines.
MaxScanLines == 4

\* the physical lines the files of DiscoverSpec are drawn from: the anchor
\* followed by 0, 1 or 2 further fields, and a line without an anchor
ScanPool ==
  { Row(Anchor),
    Row(Anchor \o <<<<"a">>>>),
    Row(Anchor \o <<<<"a">>, <<"b">>>>),
    Row(<<<<"a">>, <<"b">>>>) }

RECURSIVE ScanFilesOfLen(_)
ScanFilesOfLen(n) ==
  IF n = 0 THEN {<<>>}
  ELSE {Append(f, l) : f \in ScanFilesOfLen(n - 1), l \in ScanPool}

ScanFiles == UNION {ScanFilesOfLen(n) : n \in 0..MaxScanLines}

DiscoverInit ==
  /\ lines \in ScanFiles
  /\ override = NoOverride
  /\ paddingTolerance = DEFAULT_PADDING_TOLERANCE
  /\ FileStart
  /\ lastIndex = 0
  /\ parked = <<>>
  /\ NoDriver
  /\ NoSink

\* the function ends with DiscoverEnd: pc = "open" stands for its return
DiscoverNext == DiscoverLine \/ DiscoverEnd

DiscoverSpec == DiscoverInit /\ [][DiscoverNext]_vars

----------------------------------------------------------------------------
(* Two files inside preprocessFile at once.  The event loop runs one call  *)
(* at a time and changes call only where the running one awaits: at a line *)
(* read, at each opening and at each ending of a stream.  The variables    *)
(* of a file hold the locals of the running call; `parked` holds those of  *)
(* the suspended call.  The regex TRIPLE_ANCHOR_RE_G, and so lastIndex, is *)
(* one object for all calls.                                               *)

\* A file of PairSpec has at most MaxPairLines physical lines.
MaxPairLines == 2

\* the physical lines the files of PairSpec are drawn from
PairPool ==
  { <<"a">>,
    Row(<<<<"b">>>> \o Anchor \o <<<<"a">>>>),
    Row(<<<<"a">>, <<"b">>>> \o Anchor \o <<<<"a">>>>) }

RECURSIVE PairFilesOfLen(_)
PairFilesOfLen(n) ==
  IF n = 0 THEN {<<>>}
  ELSE {Append(f, l) : f \in PairFilesOfLen(n - 1), l \in PairPool}

PairFiles == UNION {PairFilesOfLen(n) : n \in 0..MaxPairLines}

\* the locals of the running call
Locals ==
  [lines |-> lines,
   override |-> override,
   paddingTolerance |-> paddingTolerance,
   pc |-> pc,
   i |-> i,
   scanned |-> scanned,
   absTabs |-> absTabs,
   anchorTabIdx |-> anchorTabIdx,
   canonicalTabs |-> canonicalTabs,
   cur |-> cur,
   curTabs |-> curTabs,
   pendingNL |-> pendingNL,
   records |-> records,
   ok |-> ok,
   bad |-> bad,
   out |-> out,
   rej |-> rej,
   log |-> log,
   outStream |-> outStream,
   rejStream |-> rejStream]

\* fault: a resumption that finds absTabs as the other call left it (absTabs
\* kept at module level, next to the regex)
ResumeSharedAbsTabs(p) ==
  /\ lines' = p.lines
  /\ override' = p.override
  /\ paddingTolerance' = p.paddingTolerance
  /\ pc' = p.pc
  /\ i' = p.i
  /\ scanned' = p.scanned
  /\ absTabs' = absTabs
  /\ anchorTabIdx' = p.anchorTabIdx
  /\ canonicalTabs' = p.canonicalTabs
  /\ cur' = p.cur
  /\ curTabs' = p.curTabs
  /\ pendingNL' = p.pendingNL
  /\ records' = p.records
  /\ ok' = p.ok
  /\ bad' = p.bad
  /\ out' = p.out
  /\ rej' = p.rej
  /\ log' = p.log
  /\ outStream' = p.outStream
  /\ rejStream' = p.rejStream

\* the suspended call p runs again, with its own locals
Resume(p) ==
  /\ lines' = p.lines
  /\ override' = p.override
  /\ paddingTolerance' = p.paddingTolerance
  /\ pc' = p.pc
  /\ i' = p.i
  /\ scanned' = p.scanned
  /\ absTabs' = p.absTabs
  /\ anchorTabIdx' = p.anchorTabIdx
  /\ canonicalTabs' = p.canonicalTabs
  /\ cur' = p.cur
  /\ curTabs' = p.curTabs
  /\ pendingNL' = p.pendingNL
  /\ records' = p.records
  /\ ok' = p.ok
  /\ bad' = p.bad
  /\ out' = p.out
  /\ rej' = p.rej
  /\ log' = p.log
  /\ outStream' = p.outStream
  /\ rejStream' = p.rejStream

\* the locals of a call of preprocessFile just entered on file ls, with the
\* default options
StartOf(ls) ==
  [lines |-> ls,
   override |-> NoOverride,
   paddingTolerance |-> DEFAULT_PADDING_TOLERANCE,
   pc |-> "discover",
   i |-> 0,
   scanned |-> 0,
   absTabs |-> 0,
   anchorTabIdx |-> <<>>,
   canonicalTabs |-> NoOverride,
   cur |-> <<>>,
   curTabs |-> 0,
   pendingNL |-> FALSE,
   records |-> 0,
   ok |-> 0,
   bad |-> 0,
   out |-> <<>>,
   rej |-> <<>>,
   log |-> <<>>,
   outStream |-> "none",
   rejStream |-> "none"]

PairInit ==
  /\ lines \in PairFiles
  /\ override = NoOverride
  /\ paddingTolerance = DEFAULT_PADDING_TOLERANCE
  /\ FileStart
  /\ lastIndex = 0
  /\ parked \in {<<StartOf(ls)>> : ls \in PairFiles}
  /\ NoDriver
  /\ NoSink

\* the running call awaits and the event loop resumes the other call, unless
\* that one has ended
Switch ==
  /\ parked # <<>>
  /\ Head(parked).pc \notin {"done", "errNoAnchors", "errCanonical", "errThrown"}
  /\ Resume(Head(parked))
  /\ parked' = Append(Tail(parked), Locals)
  /\ UNCHANGED <<lastIndex, driverVars, sinkVars>>

PairNext == Next \/ Switch

PairSpec == PairInit /\ [][PairNext]_vars

----------------------------------------------------------------------------
(* The file-set drivers preprocessFolder and preprocess.  A file is given  *)
(* by how its preprocessFile ends; its task goes                           *)
(*   "new" -> "waiting" -> "discover" -> "reconstruct" -> "resolved"       *)
(*                              \-> "rejected"                             *)
(* pLimit(n) is the npm package p-limit: a function put through limit()    *)
(* starts at once while fewer than n are running and otherwise waits in a  *)
(* first-in first-out queue; when a running one settles, resolved or       *)
(* rejected, the oldest waiting one starts.                                *)

\* A driver is given at most MaxFiles files.
MaxFiles == 3

\* pLimit is given a concurrency of at most MaxParallelism.
MaxParallelism == 2

\* how the preprocessFile of a file ends: without rejects, with bad > 0, or
\* by an error (Discovery finds too few anchors)
Outcomes == {"clean", "rejects", "fails"}

RECURSIVE PlansOfLen(_)
PlansOfLen(n) ==
  IF n = 0 THEN {<<>>}
  ELSE {Append(f, o) : f \in PlansOfLen(n - 1), o \in Outcomes}

\* the file sets: the drivers return early on an empty one
FileSets == UNION {PlansOfLen(n) : n \in 1..MaxFiles}

\* the files inside preprocessFile
Running == {f \in 1..Len(task) : task[f] \in {"discover", "reconstruct"}}

\* the value the promise of file f resolves with: { file, result }
Result(f) ==
  [file |-> f, bad |-> IF inputFiles[f] = "rejects" THEN 1 ELSE 0]

\* the files have no preprocessFile running in the driver specification
NoFile ==
  /\ lines = <<>>
  /\ override = NoOverride
  /\ paddingTolerance = DEFAULT_PADDING_TOLERANCE
  /\ pc = "idle"
  /\ canonicalTabs = NoOverride
  /\ i = 0 /\ scanned = 0 /\ absTabs = 0 /\ anchorTabIdx = <<>>
  /\ cur = <<>> /\ curTabs = 0 /\ pendingNL = FALSE
  /\ records = 0 /\ ok = 0 /\ bad = 0
  /\ out = <<>> /\ rej = <<>> /\ log = <<>>
  /\ outStream = "none" /\ rejStream = "none"
  /\ lastIndex = 0
  /\ parked = <<>>

DriverInit ==
  /\ driver \in {"preprocessFolder", "preprocess"}
  /\ parallelism \in 1..MaxParallelism
  /\ inputFiles \in FileSets
  /\ task = [f \in 1..Len(inputFiles) |-> "new"]
  /\ queue = <<>>
  /\ activeCount = 0
  /\ returned = NotReturned
  /\ NoFile
  /\ NoSink

\* fault: files.map without the limiter: every preprocessFile starts at once
MapFilesUnlimited ==
  /\ returned = NotReturned
  /\ \A f \in 1..Len(task) : task[f] = "new"
  /\ task' = [f \in 1..Len(task) |-> "discover"]
  /\ queue' = <<>>
  /\ activeCount' = Len(task)
  /\ UNCHANGED <<driver, parallelism, inputFiles, returned, fileVars, poolVars,
                 sinkVars>>

\* files.map(file => limit(() => preprocessFile(...))): every file is put
\* through the limiter, in input order; the first `parallelism` start
MapFiles ==
  /\ returned = NotReturned
  /\ \A f \in 1..Len(task) : task[f] = "new"
  /\ task' = [f \in 1..Len(task) |->
                IF f <= parallelism THEN "discover" ELSE "waiting"]
  /\ queue' = [k \in 1..(IF Len(task) > parallelism
                          THEN Len(task) - parallelism ELSE 0) |->
                 parallelism + k]
  /\ activeCount' = IF Len(task) > parallelism THEN parallelism ELSE Len(task)
  /\ UNCHANGED <<driver, parallelism, inputFiles, returned, fileVars, poolVars,
                 sinkVars>>

\* pLimit's next(), run when the function of file f has settled as `how`:
\* activeCount--, and the oldest waiting function starts (activeCount++)
Release(f, how) ==
  /\ task' = IF queue = <<>> THEN [task EXCEPT ![f] = how]
             ELSE [task EXCEPT ![f] = how, ![Head(queue)] = "discover"]
  /\ queue' = IF queue = <<>> THEN queue ELSE Tail(queue)
  /\ activeCount' = IF queue = <<>> THEN activeCount - 1 ELSE activeCount

\* Discovery of file f ends: with its error, which rejects the promise of f,
\* or with T, and Reconstruction starts
DiscoveryEnds(f) ==
  /\ task[f] = "discover"
  /\ IF inputFiles[f] = "fails"
     THEN Release(f, "rejected")
     ELSE /\ task' = [task EXCEPT ![f] = "reconstruct"]
          /\ UNCHANGED <<queue, activeCount>>
  /\ UNCHANGED <<driver, parallelism, inputFiles, returned, fileVars, poolVars,
                 sinkVars>>

\* Reconstruction of file f returns its counters, with or without rejects,
\* and the promise of f resolves
ReconstructionEnds(f) ==
  /\ task[f] = "reconstruct"
  /\ Release(f, "resolved")
  /\ UNCHANGED <<driver, parallelism, inputFiles, returned, fileVars, poolVars,
                 sinkVars>>

\* await Promise.all(tasks) resolves once every promise has resolved, with
\* the values in input order; preprocessFolder returns them, preprocess logs
\* the totals and ends without a return statement
DriverReturns ==
  /\ returned = NotReturned
  /\ task # <<>>
  /\ \A f \in 1..Len(task) : task[f] = "resolved"
  /\ returned' = IF driver = "preprocessFolder"
                 THEN [kind |-> "list",
                       list |-> [f \in 1..Len(task) |-> Result(f)]]
                 ELSE [kind |-> "undefined", list |-> <<>>]
  /\ UNCHANGED <<driver, parallelism, inputFiles, task, queue, activeCount,
                 fileVars, poolVars, sinkVars>>

\* await Promise.all(tasks) rejects as soon as one promise has rejected: the
\* driver throws to its caller; the other functions are not cancelled
DriverThrows ==
  /\ returned = NotReturned
  /\ \E f \in 1..Len(task) : task[f] = "rejected"
  /\ returned' = [kind |-> "error", list |-> <<>>]
  /\ UNCHANGED <<driver, parallelism, inputFiles, task, queue, activeCount,
                 fileVars, poolVars, sinkVars>>

DriverNext ==
  \/ MapFiles
  \/ \E f \in 1..Len(task) : DiscoveryEnds(f)
  \/ \E f \in 1..Len(task) : ReconstructionEnds(f)
  \/ DriverReturns
  \/ DriverThrows

\* the event loop runs every completion that is ready: a step that can be
\* taken is taken
DriverSpec == DriverInit /\ [][DriverNext]_vars /\ WF_vars(DriverNext)

----------------------------------------------------------------------------
(* reconstruct with the sinks of its two output streams followed.  A       *)
(* stream counts the bytes of the chunks written to it that it has not yet *)
(* consumed; write() returns false when that count has reached the         *)
(* stream's writableHighWaterMark.  The rejected stream is the sink's own  *)
(* write stream (the file or the object).  The accepted stream is the      *)
(* sink's own write stream, or a gzip stream piped into it when the output *)
(* name ends in .gz: the gzip stream then has its own buffer and consumes  *)
(* the chunks itself, and the sink behind the pipe takes what gzip has     *)
(* compressed.  When end() has been called and everything is consumed a    *)
(* stream emits 'finish'.                                                  *)

\* A file of StreamSpec has at most MaxStreamLines physical lines.
MaxStreamLines == 3

\* the default writableHighWaterMark of the streams openWrite creates, in
\* bytes: fs.createWriteStream(uri) and zlib.createGzip() are called
\* without a highWaterMark option
writableHighWaterMark == 16384

\* the width and tolerance handed to reconstruct in StreamSpec
StreamWidth == 1
StreamTolerance == 0

\* the physical lines of StreamSpec: records of T delimiters, accepted, one
\* of 4 bytes with its newline and one of 16,387; and records of T + 2,
\* rejected, one of 8 bytes and one of 16,391
StreamPool ==
  { Row(<<<<"a">>, <<"b">>>>),
    Row(<<<<"K">>, <<"b">>>>),
    Row(<<<<"a">>, <<"b">>, <<"a">>, <<"b">>>>),
    Row(<<<<"K">>, <<"b">>, <<"a">>, <<"b">>>>) }

RECURSIVE StreamFilesOfLen(_)
StreamFilesOfLen(n) ==
  IF n = 0 THEN {<<>>}
  ELSE {Append(f, l) : f \in StreamFilesOfLen(n - 1), l \in StreamPool}

StreamFiles == UNION {StreamFilesOfLen(n) : n \in 0..MaxStreamLines}

StreamInit ==
  /\ lines \in StreamFiles
  /\ override = StreamWidth
  /\ paddingTolerance = StreamTolerance
  /\ FileStart
  /\ lastIndex = 0
  /\ parked = <<>>
  /\ NoDriver
  /\ gzip \in BOOLEAN
  /\ compressed = 0
  /\ delivered = [out |-> 0, rej |-> 0]
  /\ finished = [out |-> FALSE, rej |-> FALSE]

\* the chunks written to the stream d, and the state of that stream
ChunksWritten(d) == IF d = "out" THEN out ELSE rej
StreamState(d) == IF d = "out" THEN outStream ELSE rejStream

\* the chunks written to the stream d that its final sink has not taken
Untaken(d) == Len(ChunksWritten(d)) - delivered[d]

\* the chunks the stream reconstruct writes to has consumed: the gzip stream
\* for a compressed accepted output, the sink's own stream otherwise
Consumed(d) == IF d = "out" /\ gzip THEN compressed ELSE delivered[d]

RECURSIVE BytesFrom(_, _)
\* the bytes of the chunks after the first k
BytesFrom(chunks, k) ==
  IF k >= Len(chunks) THEN 0
  ELSE StrLen(chunks[k + 1]) + BytesFrom(chunks, k + 1)

\* writableLength of the stream d: the bytes written to it and not consumed
BufferedBytes(d) == BytesFrom(ChunksWritten(d), Consumed(d))

\* what write(s) on the stream d has last returned, negated: the stream is
\* full when its writableLength has reached its writableHighWaterMark
SinkFull(d) == BufferedBytes(d) >= writableHighWaterMark

\* the gzip stream consumes the oldest chunk it holds
GzipTakes ==
  /\ gzip
  /\ outStream # "none"
  /\ compressed < Len(out)
  /\ compressed' = compressed + 1
  /\ UNCHANGED <<fileVars, poolVars, driverVars, gzip, delivered, finished>>

\* the final sink of the stream d takes the oldest chunk it has not taken;
\* behind a gzip stream, a chunk gzip has compressed
SinkTakes(d) ==
  /\ StreamState(d) # "none"
  /\ Untaken(d) > 0
  /\ (d = "out" /\ gzip) => delivered[d] < compressed
  /\ delivered' = [delivered EXCEPT ![d] = @ + 1]
  /\ UNCHANGED <<fileVars, poolVars, driverVars, gzip, compressed, finished>>

\* the final sink of the stream d has taken everything after end() was
\* called on it (by reconstruct, or by the pipe when gzip has ended): it
\* closes and emits 'finish'
SinkFinishes(d) ==
  /\ StreamState(d) \in {"ending", "ended"}
  /\ Untaken(d) = 0
  /\ ~finished[d]
  /\ finished' = [finished EXCEPT ![d] = TRUE]
  /\ UNCHANGED <<fileVars, poolVars, driverVars, gzip, compressed, delivered>>

\* the stream reconstruct holds for the accepted output has emitted 'finish':
\* the sink's own stream when the sink has finished; the gzip stream when it
\* has consumed what it was given, whatever the sink behind the pipe has
\* taken so far
OutFinishEmitted == IF gzip THEN compressed = Len(out) ELSE finished.out

\* the callbacks of outStream.end(r) and rejStream.end(r), run at 'finish'
OutStreamFinished == OutStreamEndedWhen(OutFinishEmitted)
RejStreamFinished == RejStreamEndedWhen(finished.rej)

StreamNext ==
  \/ ReconstructOpen
  \/ OpenOutStream
  \/ OpenRejStream
  \/ ReconstructLine
  \/ ReconstructFlush
  \/ OutStreamFinished
  \/ RejStreamFinished
  \/ GzipTakes
  \/ \E d \in {"out", "rej"} : SinkTakes(d)
  \/ \E d \in {"out", "rej"} : SinkFinishes(d)

\* the event loop runs every completion that is ready
StreamSpec == StreamInit /\ [][StreamNext]_vars /\ WF_vars(StreamNext)

----------------------------------------------------------------------------
(* Vocabulary of the properties *)

\* the pass has ended, normally or with one of the two errors
Terminated == pc \in {"done", "errNoAnchors", "errCanonical", "errThrown"}

\* reconstruct is opening its streams
Opening == pc \in {"open", "openOut", "openRej"}

\* the end-of-stream flush of reconstruct has run: the streams are being
\* ended, or reconstruct has returned
Flushed == pc \in {"endOut", "endRej", "done"}

\* reconstruct is in its line loop or past it
PastOpen == pc = "reconstruct" \/ Flushed

\* reconstruct has been called
InReconstruct == Opening \/ PastOpen

\* a field that is a run of lo..hi digits and nothing else
DigitField(f, lo, hi) ==
  /\ f # <<>>
  /\ \A k \in 1..Len(f) : IsDigit(f[k])
  /\ StrLen(f) >= lo
  /\ StrLen(f) <= hi

\* the field positions at which the anchor triple occurs in a line
AnchorPositions(line) ==
  LET fs == SplitTab(line)
  IN {k \in 1..(Len(fs) - 2) : /\ DigitField(fs[k], 10, 10)
                               /\ DigitField(fs[k + 1], 10, 20)
                               /\ DigitField(fs[k + 2], 10, 20)}

\* every record is one physical line with the same number of delimiters and
\* the anchor exactly once, at the same field position
IsCleanFile ==
  /\ Len(lines) >= 2
  /\ \A k \in 1..Len(lines) :
       /\ StripCR(lines[k]) = lines[k]
       /\ countTabs(lines[k]) = countTabs(lines[1])
       /\ Cardinality(AnchorPositions(lines[k])) = 1
       /\ AnchorPositions(lines[k]) = AnchorPositions(lines[1])

\* the delimiter count of the records of a clean file
CleanWidth == countTabs(lines[1])

\* the input lines, each followed by its newline
LinesAsChunks == [k \in 1..Len(lines) |-> lines[k] \o <<LF>>]

\* the non-empty lines of a sequence of lines
NonEmpty(ls) == SelectSeq(ls, LAMBDA l : l # <<>>)

RECURSIVE JoinWith(_, _)
\* the lines of ls with sep between consecutive lines
JoinWith(ls, sep) ==
  IF ls = <<>> THEN <<>>
  ELSE IF Len(ls) = 1 THEN ls[1]
  ELSE ls[1] \o sep \o JoinWith(Tail(ls), sep)

\* the raw text of consecutive physical lines: a newline between them
RawText(ls) == JoinWith(ls, <<LF>>)

\* the non-empty lines joined by the placeholder token
Spliced(ls) == JoinWith(NonEmpty(ls), newlineReplacement)

\* the ways of cutting the file into logical records of consecutive physical
\* lines, each given as the set of the indices of the records' last lines
Groupings ==
  IF lines = <<>> THEN {{}}
  ELSE {e \cup {Len(lines)} : e \in SUBSET (1..(Len(lines) - 1))}

\* the physical lines of the logical record that ends at line e
GroupLines(ends, e) ==
  LET before == {x \in ends : x < e}
      start == IF before = {} THEN 0
               ELSE CHOOSE x \in before : \A y \in before : y <= x
  IN SubSeq(lines, start + 1, e)

\* the n-th smallest element of a set of line indices
NthEnd(ends, n) ==
  CHOOSE e \in ends : Cardinality({x \in ends : x < e}) = n - 1

\* the physical lines read since the write before log entry j, up to the line
\* during which entry j was written
FormedBy(j) ==
  SubSeq(lines, (IF j = 1 THEN 0 ELSE log[j - 1].at) + 1, log[j].at)

\* log entry j was written by finalizeCur (not by the guardrail)
Finalized(j) == log[j].via # "guard"

----------------------------------------------------------------------------
(* C1..C3 *)

\* C1: the counters of reconstruct balance in every reachable state,
\* ok + bad = records, also after the guardrail has force-rejected.
C1_CountersBalance == ok + bad = records

\* C2: for a clean file of at least two records of T delimiters each,
\* discovery returns canonicalTabs = T.
C2_CleanFileWidth ==
  (override = NoOverride /\ pc # "discover" /\ IsCleanFile)
    => (InReconstruct /\ canonicalTabs = CleanWidth)

\* C3: on a clean file, discovery followed by reconstruction with the
\* default padding tolerance accepts every line unchanged: ok = records =
\* number of lines, bad = 0, and the accepted output equals the input.
C3_IdempotentOnClean ==
  (override = NoOverride /\ Terminated /\ IsCleanFile
     /\ paddingTolerance = DEFAULT_PADDING_TOLERANCE)
    => /\ pc = "done"
       /\ ok = Len(lines)
       /\ records = Len(lines)
       /\ bad = 0
       /\ out = LinesAsChunks

----------------------------------------------------------------------------
(* C4: newline-splice recovery *)

\* a logical record of canonicalTabs delimiters, given by its physical lines
IsSplitRecord(g) ==
  /\ countTabs(Spliced(g)) = canonicalTabs
  /\ NonEmpty(g) # <<>>

\* no non-empty physical line of the record follows its last delimiter: the
\* record is complete only when its last non-empty line has been read
CompletesOnLastLine(g) ==
  LET ne == NonEmpty(g)
  IN countTabs(ne[Len(ne)]) >= 1

\* C4 as claimed: whenever the file is a sequence of logical records of
\* exactly T delimiters, each cut into one or more non-empty physical lines
\* by newlines anywhere in its fields, and at least one of them is cut, the
\* accepted output is exactly the records, lines joined by the placeholder,
\* and nothing is rejected.
C4_AnySpliceRecovered ==
  (pc = "done" /\ override # NoOverride) =>
    \A ends \in Groupings :
      ( /\ \A e \in ends : /\ IsSplitRecord(GroupLines(ends, e))
                           /\ NonEmpty(GroupLines(ends, e)) = GroupLines(ends, e)
                           /\ StrLen(Spliced(GroupLines(ends, e))) <= MAX_CUR_LEN
        /\ \E e \in ends : Len(GroupLines(ends, e)) >= 2 )
      => /\ out = [n \in 1..Cardinality(ends) |->
                     Spliced(GroupLines(ends, NthEnd(ends, n))) \o <<LF>>]
         /\ rej = <<>>

\* C4 (amended): the same for records whose newlines do not fall after the
\* record's last delimiter and whose joined text is at most MAX_CUR_LEN
\* characters; the accepted record is the record's non-empty physical lines
\* joined by the placeholder (an empty line adds nothing).
C4_SpliceRecovered ==
  (pc = "done") =>
    \A ends \in Groupings :
      ( \A e \in ends : /\ IsSplitRecord(GroupLines(ends, e))
                        /\ CompletesOnLastLine(GroupLines(ends, e))
                        /\ StrLen(Spliced(GroupLines(ends, e))) <= MAX_CUR_LEN )
      => /\ out = [n \in 1..Cardinality(ends) |->
                     Spliced(GroupLines(ends, NthEnd(ends, n))) \o <<LF>>]
         /\ rej = <<>>
         /\ ok = Cardinality(ends)
         /\ bad = 0

\* C4 witness: a finished pass over a file of two such records, one of them
\* cut into two or more non-empty physical lines
C4_Witness ==
  /\ pc = "done"
  /\ override # NoOverride
  /\ \E ends \in Groupings :
       /\ Cardinality(ends) >= 2
       /\ \A e \in ends : /\ IsSplitRecord(GroupLines(ends, e))
                          /\ CompletesOnLastLine(GroupLines(ends, e))
                          /\ StrLen(Spliced(GroupLines(ends, e))) <= MAX_CUR_LEN
       /\ \E e \in ends : Len(NonEmpty(GroupLines(ends, e))) >= 2
  /\ Len(out) = 2

----------------------------------------------------------------------------
(* C5: fragment rejection *)

\* a delimiter count far below T: under the fragment thresholds and short by
\* more than the padding tolerance
FarBelow(c) ==
  /\ c < canonicalTabs
  /\ (c < 10 \/ c < FloorDiv(canonicalTabs * 6, 10))
  /\ canonicalTabs - c > paddingTolerance

\* C5 as claimed: every non-empty physical line whose delimiter count is far
\* below T is written to the rejected stream unmodified as its own record,
\* whatever follows it.
C5_FragmentLineRejectedAlone ==
  (pc = "done") =>
    \A k \in 1..Len(lines) :
      (lines[k] # <<>> /\ FarBelow(countTabs(lines[k])))
        => \E j \in 1..Len(log) : /\ log[j].dest = "rej"
                                  /\ log[j].chunk = lines[k] \o <<LF>>
                                  /\ NonEmpty(FormedBy(j)) = <<lines[k]>>

\* C5 (amended): a record finalized with a delimiter count far below T is
\* written to the rejected stream unmodified (the non-empty physical lines
\* that formed it, joined by the placeholder, and a newline); this happens
\* only in the end-of-stream flush, a short line followed by further lines
\* being kept in the accumulator and joined with them.
C5_FinalizedFragmentRejected ==
  \A j \in 1..Len(log) :
    (Finalized(j) /\ FarBelow(countTabs(log[j].src)))
      => /\ log[j].dest = "rej"
         /\ log[j].chunk = Spliced(FormedBy(j)) \o <<LF>>
         /\ j = Len(log)
         /\ log[j].at = Len(lines)
         /\ Flushed

\* C5 witness: after an earlier record was written, the end-of-stream flush
\* rejected a record far below T
C5_Witness ==
  /\ pc = "done"
  /\ Len(log) >= 2
  /\ Finalized(Len(log))
  /\ FarBelow(countTabs(log[Len(log)].src))
  /\ log[Len(log)].dest = "rej"

----------------------------------------------------------------------------
(* C6: padding *)

\* a delimiter count short of T by 1..paddingTolerance
SlightlyShort(c) ==
  /\ canonicalTabs - c >= 1
  /\ canonicalTabs - c <= paddingTolerance

\* C6 as claimed: every logical record that is one physical line short by
\* 1..paddingTolerance delimiters is accepted as its own record, padded with
\* the missing trailing delimiters, whether or not further records follow.
C6_ShortLinePadded ==
  (pc = "done") =>
    \A k \in 1..Len(lines) :
      (lines[k] # <<>> /\ SlightlyShort(countTabs(lines[k])))
        => \E j \in 1..Len(log) :
             /\ log[j].dest = "out"
             /\ log[j].chunk =
                  lines[k] \o Repeat(TAB, canonicalTabs - countTabs(lines[k]))
                           \o <<LF>>
             /\ NonEmpty(FormedBy(j)) = <<lines[k]>>

\* C6 (amended): a record finalized with a count short by 1..paddingTolerance
\* is accepted with the missing trailing delimiters appended, so that it has
\* exactly T; this happens only in the end-of-stream flush (the last record
\* of the file), a short line followed by further lines being joined with
\* them instead.
C6_FinalizedShortPadded ==
  \A j \in 1..Len(log) :
    (Finalized(j) /\ SlightlyShort(countTabs(log[j].src)))
      => /\ log[j].dest = "out"
         /\ log[j].chunk =
              Spliced(FormedBy(j))
                \o Repeat(TAB, canonicalTabs - countTabs(log[j].src))
                \o <<LF>>
         /\ countTabs(log[j].chunk) = canonicalTabs
         /\ j = Len(log)
         /\ log[j].at = Len(lines)
         /\ Flushed

\* C6 witness: the end-of-stream flush padded a record that was short by two
\* or more delimiters, after an earlier record was written
C6_Witness ==
  /\ pc = "done"
  /\ Len(log) >= 2
  /\ log[Len(log)].via = "pad"
  /\ canonicalTabs - countTabs(log[Len(log)].src) >= 2

----------------------------------------------------------------------------
(* C7: truncation *)

\* a delimiter count over T by 1..paddingTolerance
SlightlyLong(c) ==
  /\ c - canonicalTabs >= 1
  /\ c - canonicalTabs <= paddingTolerance

\* chunk is the first T + 1 fields of src and a newline: a prefix of src with
\* exactly T delimiters that ends where a delimiter of src follows
IsLeadingFields(chunk, src) ==
  LET n == Len(chunk) - 1
  IN /\ n >= 0
     /\ n < Len(src)
     /\ chunk = SubSeq(src, 1, n) \o <<LF>>
     /\ src[n + 1] = TAB
     /\ countTabs(SubSeq(src, 1, n)) = canonicalTabs

\* the number of entries of the history written to a stream
Written(dest) == Cardinality({j \in 1..Len(log) : log[j].dest = dest})

\* C7: a record finalized with a count over T by 1..paddingTolerance is
\* written to the accepted stream as its first T + 1 fields rejoined by the
\* delimiter, the leading fields unchanged, and is counted in ok.
C7_LongRecordTruncated ==
  /\ \A j \in 1..Len(log) :
       (Finalized(j) /\ SlightlyLong(countTabs(log[j].src)))
         => /\ log[j].dest = "out"
            /\ IsLeadingFields(log[j].chunk, log[j].src)
  /\ ok = Written("out")

\* C7 witness: a record with two extra trailing fields was truncated
C7_Witness ==
  \E j \in 1..Len(log) :
    /\ log[j].via = "trunc"
    /\ countTabs(log[j].src) - canonicalTabs >= 1
    /\ log[j].dest = "out"
    /\ ok >= 1

----------------------------------------------------------------------------
(* C8: order preservation *)

\* the chunks the history records for a stream, in the order of the writes
ChunksOf(dest) ==
  [n \in 1..Written(dest) |->
     log[CHOOSE j \in 1..Len(log) :
           /\ log[j].dest = dest
           /\ Cardinality({x \in 1..j : log[x].dest = dest}) = n].chunk]

\* each stream holds its records in the order in which they were completed,
\* and records complete in input order: each is formed by the lines that
\* follow those of the record before it
InCompletionOrder ==
  /\ out = ChunksOf("out")
  /\ rej = ChunksOf("rej")
  /\ \A j \in 1..Len(log) : \A k \in 1..Len(log) :
       j < k => log[j].at < log[k].at

\* every physical line is a record of exactly T delimiters
AllWellFormed ==
  \A k \in 1..Len(lines) :
    lines[k] # <<>> /\ countTabs(lines[k]) = canonicalTabs

\* C8 as claimed: the streams are in completion order, and for a file of N
\* well-formed single-line records the accepted sequence is the input
\* sequence.
C8_OrderPreservedAnySize ==
  /\ InCompletionOrder
  /\ (pc = "done" /\ AllWellFormed) => (out = LinesAsChunks /\ rej = <<>>)

\* C8 (amended): the same, for well-formed single-line records of at most
\* MAX_CUR_LEN characters each (a longer one is force-rejected by the
\* guardrail of appendToCur).
C8_OrderPreserved ==
  /\ InCompletionOrder
  /\ (pc = "done" /\ AllWellFormed
        /\ \A k \in 1..Len(lines) : StrLen(lines[k]) <= MAX_CUR_LEN)
       => (out = LinesAsChunks /\ rej = <<>>)

\* C8 witness: a finished pass over three well-formed records, not all the
\* same, none over the size ceiling
C8_Witness ==
  /\ pc = "done"
  /\ AllWellFormed
  /\ Len(lines) = 3
  /\ lines[1] # lines[2]
  /\ \A k \in 1..Len(lines) : StrLen(lines[k]) <= MAX_CUR_LEN
  /\ Len(out) = 3

----------------------------------------------------------------------------
(* C9: accepted records have exactly T delimiters *)

\* C9: every chunk written to the accepted stream contains exactly T
\* delimiters (and T >= 1), whether it was accepted as is, padded or
\* truncated.
C9_AcceptedHaveExactlyT ==
  \A n \in 1..Len(out) :
    /\ canonicalTabs >= 1
    /\ countTabs(out[n]) = canonicalTabs
    /\ out[n][Len(out[n])] = LF

\* C9 witness: one pass accepted a record as is, truncated one and padded one
C9_Witness ==
  /\ Len(out) = 3
  /\ \E j \in 1..Len(log) : log[j].via = "exact"
  /\ \E j \in 1..Len(log) : log[j].via = "trunc"
  /\ \E j \in 1..Len(log) : log[j].via = "pad"

----------------------------------------------------------------------------
(* C10: rejected records are unmodified *)

\* C10 as claimed: every chunk written to the rejected stream is the raw
\* input text of the physical lines that formed it, followed by a newline.
C10_RejectedIsRawInput ==
  \A j \in 1..Len(log) :
    log[j].dest = "rej"
      => log[j].chunk = RawText(NonEmpty(FormedBy(j))) \o <<LF>>

\* C10 (amended): every chunk written to the rejected stream, by finalizeCur
\* or by the guardrail, is the text of the non-empty physical lines that
\* formed it, each unchanged and in order, with the placeholder token in
\* place of the newline between two of them, followed by one newline:
\* nothing is padded, truncated or dropped but empty lines.
C10_RejectedUnmodified ==
  /\ \A j \in 1..Len(log) :
       log[j].dest = "rej"
         => /\ log[j].chunk = Spliced(FormedBy(j)) \o <<LF>>
            /\ Cardinality({x \in 1..Len(log[j].chunk) : log[j].chunk[x] = LF}) = 1
  /\ Len(rej) = Written("rej")
  /\ \A n \in 1..Len(rej) : \E j \in 1..Len(log) :
       log[j].dest = "rej" /\ log[j].chunk = rej[n]

\* C10 witness: a rejected record formed by two or more physical lines, and
\* one force-rejected by the guardrail
C10_Witness ==
  /\ \E j \in 1..Len(log) : /\ log[j].dest = "rej"
                            /\ Finalized(j)
                            /\ Len(NonEmpty(FormedBy(j))) >= 2
  /\ \E j \in 1..Len(log) : log[j].via = "guard"

----------------------------------------------------------------------------
(* C11: discovery failure *)

RECURSIVE AnchorMatches(_)
\* the number of anchor triples in the lines ls, counted field by field
AnchorMatches(ls) ==
  IF ls = <<>> THEN 0
  ELSE Cardinality(AnchorPositions(StripCR(Head(ls)))) + AnchorMatches(Tail(ls))

\* no output stream has been opened or written
NoOutputTouched ==
  /\ outStream = "none"
  /\ rejStream = "none"
  /\ out = <<>>
  /\ rej = <<>>
  /\ log = <<>>

\* C11: without a supplied width, a file holding zero or one anchor match
\* never gets past Discovery: once its last line is scanned the pass ends in
\* the too-few-anchors error, and neither output stream is ever opened or
\* written.
C11_TooFewAnchorsFails ==
  (override = NoOverride /\ AnchorMatches(lines) <= 1)
    => /\ pc \in {"discover", "errNoAnchors"}
       /\ (pc = "discover" => i <= Len(lines))
       /\ (pc = "errNoAnchors" => scanned = Len(lines))
       /\ NoOutputTouched

\* C11 witness: a file of several lines with exactly one anchor has failed
C11_Witness ==
  /\ pc = "errNoAnchors"
  /\ Len(lines) >= 2
  /\ AnchorMatches(lines) = 1
  /\ Len(anchorTabIdx) = 1

----------------------------------------------------------------------------
(* C12: bounded accumulation *)

\* the physical lines read since the last write
Pending ==
  SubSeq(lines, (IF log = <<>> THEN 0 ELSE log[Len(log)].at) + 1, i)

\* C12: between physical lines the accumulator holds at most MAX_CUR_LEN
\* characters and at most T * MAX_TAB_MULTIPLIER delimiters; every guardrail
\* flush was caused by an accumulator over one of the limits, wrote that whole
\* accumulator (all the lines gathered so far) to the rejected stream as one
\* record, and left the accumulator empty, so the next record starts afresh.
C12_AccumulatorBounded ==
  PastOpen
    => /\ StrLen(cur) <= MAX_CUR_LEN
       /\ curTabs <= canonicalTabs * MAX_TAB_MULTIPLIER
       /\ curTabs = countTabs(cur)
       /\ cur = Spliced(Pending)
       /\ \A j \in 1..Len(log) :
            log[j].via = "guard"
              => /\ log[j].dest = "rej"
                 /\ \/ StrLen(log[j].src) > MAX_CUR_LEN
                    \/ countTabs(log[j].src) > canonicalTabs * MAX_TAB_MULTIPLIER
                 /\ log[j].src = Spliced(FormedBy(j))
                 /\ log[j].chunk = log[j].src \o <<LF>>

\* C12 witness: the guardrail has flushed an accumulator gathered from two
\* physical lines, and the pass has ended
C12_Witness ==
  /\ pc = "done"
  /\ \E j \in 1..Len(log) : /\ log[j].via = "guard"
                            /\ Len(NonEmpty(FormedBy(j))) >= 2
                            /\ StrLen(log[j].src) > MAX_CUR_LEN

----------------------------------------------------------------------------
(* C13: reconstruct terminates without an error *)

\* C13: reconstruct is never stuck and never leaves by an exception: while it
\* runs, the guard of the line step (i < Len(lines)) or of the final step
\* (i = Len(lines)) holds, every step either consumes one more of the
\* finitely many physical lines or returns the counters, and a record that
\* is rejected (fragment, malformed, over the guardrail) is a write to the
\* rejected stream.
C13_ReconstructTerminates ==
  /\ [](pc = "reconstruct" => (i < Len(lines) \/ i = Len(lines)))
  /\ [](pc # "errThrown")
  /\ [](\A j \in 1..Len(log) :
          log[j].via \in {"fragment", "malformed", "guard"}
            => log[j].dest = "rej" /\ log[j].chunk \in {rej[n] : n \in 1..Len(rej)})
  /\ [][pc = "reconstruct"
          => \/ pc' = "endOut" /\ i = Len(lines)
             \/ pc' = "reconstruct" /\ i' = i + 1 /\ i' <= Len(lines)]_vars
  /\ [][(pc = "endOut" => pc' = "endRej") /\ (pc = "endRej" => pc' = "done")]_vars

\* C13 witness: a pass over three lines has returned after rejecting a
\* malformed record and a fragment
C13_Witness ==
  /\ pc = "done"
  /\ Len(lines) = 3
  /\ \E j \in 1..Len(log) : log[j].via = "malformed"
  /\ \E j \in 1..Len(log) : log[j].via = "fragment"
  /\ records = ok + bad

----------------------------------------------------------------------------
(* C14: end of stream *)

\* the write w follows the accept / pad / truncate / reject policy for the
\* accumulator w.src
FollowsPolicy(w) ==
  LET c == countTabs(w.src)
  IN IF c = canonicalTabs
     THEN w.dest = "out" /\ w.chunk = w.src \o <<LF>>
     ELSE IF c < canonicalTabs /\ canonicalTabs - c <= paddingTolerance
     THEN /\ w.dest = "out"
          /\ w.chunk = w.src \o Repeat(TAB, canonicalTabs - c) \o <<LF>>
     ELSE IF c > canonicalTabs /\ c - canonicalTabs <= paddingTolerance
     THEN w.dest = "out" /\ IsLeadingFields(w.chunk, w.src)
     ELSE w.dest = "rej" /\ w.chunk = w.src \o <<LF>>

\* C14: the step that ends the pass finalizes a non-empty accumulator exactly
\* once (one record counted, one chunk written, by the policy that every
\* mid-stream finalization follows) and counts and writes nothing when the
\* accumulator is empty; when reconstruct has returned the accumulator is
\* empty.
C14_EofFlushOnce ==
  /\ [](Flushed => cur = <<>> /\ curTabs = 0)
  /\ [][Flushed => UNCHANGED <<records, ok, bad, out, rej, log>>]_vars
  /\ [](\A j \in 1..Len(log) : Finalized(j) => FollowsPolicy(log[j]))
  /\ [][(pc = "reconstruct" /\ pc' = "endOut")
          => IF cur # <<>>
             THEN /\ records' = records + 1
                  /\ ok' + bad' = ok + bad + 1
                  /\ Len(log') = Len(log) + 1
                  /\ Len(out') + Len(rej') = Len(out) + Len(rej) + 1
                  /\ log'[Len(log')].src = cur
                  /\ log'[Len(log')].via # "guard"
                  /\ FollowsPolicy(log'[Len(log')])
             ELSE UNCHANGED <<records, ok, bad, out, rej, log>>]_vars

\* C14 witness: the pass has ended by flushing an accumulator that had not
\* reached T delimiters (so only the end of the stream can have closed it),
\* after closing another record mid-stream
C14_Witness ==
  /\ pc = "done"
  /\ Len(log) >= 2
  /\ log[Len(log)].at = Len(lines)
  /\ Finalized(Len(log))
  /\ countTabs(log[Len(log)].src) < canonicalTabs
  /\ countTabs(log[1].src) >= canonicalTabs
  /\ cur = <<>>

----------------------------------------------------------------------------
(* C18: Discovery before Reconstruction *)

\* C18: reconstruct is called only when Discovery has read the whole file
\* and returned its mode as T (>= 1), and touches nothing before; with a
\* supplied width Discovery reads no line at all and T is the supplied value;
\* T does not change while reconstruct runs.
C18_DiscoveryThenReconstruction ==
  /\ [](pc = "discover" => NoOutputTouched /\ records = 0 /\ cur = <<>>)
  /\ [](InReconstruct
          => IF override = NoOverride
             THEN /\ scanned = Len(lines)
                  /\ canonicalTabs = ModeDelta(anchorTabIdx)
                  /\ canonicalTabs >= 1
             ELSE /\ scanned = 0
                  /\ anchorTabIdx = <<>>
                  /\ absTabs = 0
                  /\ canonicalTabs = override)
  /\ [][InReconstruct => canonicalTabs' = canonicalTabs]_vars

\* C18 witness: a pass that discovered T over three lines has reconstructed
\* them
C18_Witness ==
  /\ pc = "done"
  /\ override = NoOverride
  /\ Len(lines) = 3
  /\ scanned = 3
  /\ Len(anchorTabIdx) >= 2
  /\ records >= 2

----------------------------------------------------------------------------
(* C19: no input dropped *)

\* the accumulator of write w is written whole: the chunk begins with it
WrittenWhole(w) ==
  /\ Len(w.chunk) >= Len(w.src)
  /\ SubSeq(w.chunk, 1, Len(w.src)) = w.src

\* every non-empty line read belongs to exactly one written record, and each
\* record is in exactly one stream, once
EveryLineInOneRecord ==
  /\ cur = <<>>
  /\ NonEmpty(Pending) = <<>>
  /\ \A j \in 1..Len(log) : log[j].src = Spliced(FormedBy(j))
  /\ InCompletionOrder
  /\ Len(out) + Len(rej) = Len(log)

\* C19 as claimed: when reconstruct has returned, every non-empty physical
\* line belongs to exactly one written record, and the content of every line
\* is in the chunk written for its record.
C19_NoContentDropped ==
  pc = "done"
    => /\ EveryLineInOneRecord
       /\ \A j \in 1..Len(log) : WrittenWhole(log[j])

\* C19 (amended): when reconstruct has returned, every non-empty physical
\* line belongs to exactly one written record and no record is written
\* twice; the record is written whole, except a slightly long one, of which
\* the first T + 1 fields are written and the fields after them are in
\* neither stream.
C19_NoLineDropped ==
  pc = "done"
    => /\ EveryLineInOneRecord
       /\ \A j \in 1..Len(log) :
            IF log[j].via = "trunc"
            THEN IsLeadingFields(log[j].chunk, log[j].src)
            ELSE WrittenWhole(log[j])

\* C19 witness: three non-empty lines ended up in an accepted record made of
\* two of them and a rejected record
C19_Witness ==
  /\ pc = "done"
  /\ Len(lines) = 3
  /\ Len(NonEmpty(lines)) = 3
  /\ Len(out) = 1
  /\ Len(rej) = 1
  /\ \E j \in 1..Len(log) : Len(FormedBy(j)) = 2 /\ log[j].dest = "out"

----------------------------------------------------------------------------
(* C20: pending-join *)

\* the number of placeholder tokens in s (no input line of the model holds
\* a backslash)
CountJoins(s) == Cardinality({x \in 1..Len(s) : s[x] = "bsl"})

RECURSIVE DropLeadingEmpty(_)
\* ls from its first non-empty line on
DropLeadingEmpty(ls) ==
  IF ls = <<>> THEN <<>>
  ELSE IF Head(ls) = <<>> THEN DropLeadingEmpty(Tail(ls))
  ELSE ls

\* C20 as claimed: every physical line that began while the accumulator was
\* non-empty, empty lines included, spliced one placeholder: a written
\* accumulator holds one placeholder fewer than the physical lines it was
\* assembled from, counted from the first line that put content in it.
C20_PlaceholderPerLine ==
  \A j \in 1..Len(log) :
    CountJoins(log[j].src) = Len(DropLeadingEmpty(FormedBy(j))) - 1

\* C20 (amended): every non-empty physical line that begins while the
\* accumulator is non-empty splices exactly one placeholder before its
\* content, and an empty line splices nothing: an accumulator assembled from
\* k non-empty lines is those lines with one placeholder between each two,
\* k - 1 in all.
C20_PlaceholderPerContentLine ==
  /\ \A j \in 1..Len(log) :
       /\ CountJoins(log[j].src) = Len(NonEmpty(FormedBy(j))) - 1
       /\ log[j].src = Spliced(FormedBy(j))
  /\ (PastOpen /\ cur # <<>>)
       => /\ CountJoins(cur) = Len(NonEmpty(Pending)) - 1
          /\ cur = Spliced(Pending)

\* C20 witness: a written record assembled from two non-empty lines with an
\* empty line between them
C20_Witness ==
  \E j \in 1..Len(log) :
    /\ Len(FormedBy(j)) = 3
    /\ FormedBy(j)[1] # <<>>
    /\ FormedBy(j)[2] = <<>>
    /\ FormedBy(j)[3] # <<>>
    /\ CountJoins(log[j].src) = 1

----------------------------------------------------------------------------
(* C16: file independence *)

RECURSIVE SoloScan(_, _)
\* absTabs and anchorTabIdx of a Discovery that has read the first k lines of
\* ls with no other call running
SoloScan(ls, k) ==
  IF k = 0 THEN [absTabs |-> 0, anchorTabIdx |-> <<>>, lastIndex |-> 0]
  ELSE LET before == SoloScan(ls, k - 1)
       IN ScanAnchors(StripCR(ls[k]), 0, before.absTabs, before.anchorTabIdx)

\* how Discovery alone ends on the whole file: the pc after it
SoloVerdict ==
  LET idx == SoloScan(lines, Len(lines)).anchorTabIdx
  IN IF Len(idx) < 2 THEN "errNoAnchors"
     ELSE IF ModeDelta(idx) <= 0 THEN "errCanonical"
     ELSE "open"

RECURSIVE SoloEngine(_)
\* the engine of a reconstruct that has read the first k lines of the file
\* with no other call running
SoloEngine(k) ==
  IF k = 0
  THEN [cur |-> <<>>, curTabs |-> 0, pendingNL |-> FALSE, records |-> 0,
        ok |-> 0, bad |-> 0, out |-> <<>>, rej |-> <<>>, log |-> <<>>,
        at |-> 0, threw |-> FALSE]
  ELSE LineStep([SoloEngine(k - 1) EXCEPT !.at = k], lines[k])

\* C16: with two calls of preprocessFile interleaved at their awaits, the
\* running call always holds what it would hold had it run alone: during
\* Discovery the same delimiter count and anchor positions, after it the
\* same error or the same canonical width, during and after Reconstruction
\* the same accumulator, counters and streams.  The shared regex is back at
\* lastIndex 0 whenever a call awaits.
C16_FileIndependence ==
  /\ lastIndex = 0
  /\ LET solo == SoloScan(lines, IF pc = "discover" THEN i ELSE Len(lines))
     IN /\ absTabs = solo.absTabs
        /\ anchorTabIdx = solo.anchorTabIdx
  /\ pc = "discover" => [Engine EXCEPT !.at = 0] = SoloEngine(0)
  /\ pc \in {"errNoAnchors", "errCanonical"} => pc = SoloVerdict
  /\ InReconstruct
       => /\ SoloVerdict = "open"
          /\ canonicalTabs = ModeDelta(SoloScan(lines, Len(lines)).anchorTabIdx)
  /\ (Opening \/ pc = "reconstruct") => Engine = SoloEngine(i)
  /\ Flushed => Engine = EofStep(SoloEngine(Len(lines)))
  /\ pc # "errThrown"

\* C16 witness: both calls are in the middle of Discovery, each with one of
\* its two lines scanned and one anchor recorded, at different positions
C16_Witness ==
  /\ parked # <<>>
  /\ pc = "discover" /\ i = 1 /\ Len(lines) = 2
  /\ parked[1].pc = "discover" /\ parked[1].i = 1 /\ Len(parked[1].lines) = 2
  /\ Len(anchorTabIdx) = 1
  /\ Len(parked[1].anchorTabIdx) = 1
  /\ absTabs # parked[1].absTabs

----------------------------------------------------------------------------
(* C15: concurrency cap *)

\* every file has been handed to preprocessFile
AllStarted == \A f \in 1..Len(task) : task[f] \notin {"new", "waiting"}

\* C15: at most `parallelism` files are inside preprocessFile at any time
\* (pLimit's activeCount is their number), a file waits only while every slot
\* is taken, and every file is eventually started.
C15_ConcurrencyCap ==
  /\ [](Cardinality(Running) <= parallelism)
  /\ [](activeCount = Cardinality(Running))
  /\ [](queue # <<>> => Cardinality(Running) = parallelism)
  /\ [](\A f \in 1..Len(task) :
          task[f] = "waiting" <=> \E k \in 1..Len(queue) : queue[k] = f)
  /\ <>AllStarted

\* C15 witness: of three files under a cap of two, the third has been
\* started after the first settled, while the second is still running
C15_Witness ==
  /\ Len(task) = 3
  /\ parallelism = 2
  /\ task[1] \in {"resolved", "rejected"}
  /\ task[2] \in {"discover", "reconstruct"}
  /\ task[3] = "discover"

----------------------------------------------------------------------------
(* C17: the drivers' results *)

\* C17 as claimed: when the driver has returned and no file raised an
\* error, it has returned the list of the per-file results in input order;
\* and when no file raises an error the driver does not end in an error,
\* whatever number of files have rejects.
C17_DriversReturnResults ==
  (\A f \in 1..Len(inputFiles) : inputFiles[f] # "fails")
    => /\ returned.kind \in {"pending", "list"}
       /\ returned.kind = "list"
            => /\ Len(returned.list) = Len(inputFiles)
               /\ \A f \in 1..Len(inputFiles) : returned.list[f] = Result(f)

----------------------------------------------------------------------------
(* C21: the running delimiter count of Discovery *)

RECURSIVE TabsIn(_)
\* the number of delimiter characters in the lines ls
TabsIn(ls) ==
  IF ls = <<>> THEN 0 ELSE countTabs(StripCR(Head(ls))) + TabsIn(Tail(ls))

RECURSIVE MatchStarts(_, _)
\* the offsets in the line at which the successive anchor matches begin
MatchStarts(line, from) ==
  LET m == Exec(line, from)
  IN IF m.index = -1 THEN <<>>
     ELSE <<m.index>> \o MatchStarts(line, m.lastIndex)

RECURSIVE AbsolutePositions(_)
\* for every anchor match of the lines ls, in order, the number of delimiter
\* characters of the file that lie before the position where it begins
AbsolutePositions(ls) ==
  IF ls = <<>> THEN <<>>
  ELSE LET front == SubSeq(ls, 1, Len(ls) - 1)
           line == StripCR(ls[Len(ls)])
           starts == MatchStarts(line, 0)
       IN AbsolutePositions(front)
            \o [k \in 1..Len(starts) |->
                  TabsIn(front) + countTabs(Slice(line, 0, starts[k]))]

\* C21 as claimed: after each physical line absTabs is the number of
\* delimiters in all the lines read so far, those inside anchor matches
\* included, and every recorded position is the absolute delimiter count at
\* the position of its match, so that a delta is the number of delimiters
\* between two consecutive match positions.
C21_AbsTabsIsAbsolute ==
  override = NoOverride
    => /\ absTabs = TabsIn(SubSeq(lines, 1, scanned))
       /\ anchorTabIdx = AbsolutePositions(SubSeq(lines, 1, scanned))

----------------------------------------------------------------------------
(* C22: the mode of the histogram *)

\* the deltas that occur
DeltaSet(ds) == {ds[k] : k \in 1..Len(ds)}

\* d is the mode of the deltas ds with ties going to the larger delta: no
\* delta is more frequent, and none as frequent is larger
IsMode(ds, d) ==
  /\ d \in DeltaSet(ds)
  /\ \A x \in DeltaSet(ds) : Freq(ds, x) <= Freq(ds, d)
  /\ \A x \in DeltaSet(ds) : Freq(ds, x) = Freq(ds, d) => x <= d

\* C22: when discoverCanonicalTabs returns, canonicalTabs is a delta of
\* maximal frequency and the largest of the deltas of that frequency,
\* whatever the order in which the deltas entered the histogram; when it
\* throws for the width, that delta is not positive.
C22_ModeLargestOfMostFrequent ==
  /\ pc = "open" => IsMode(Deltas(anchorTabIdx), canonicalTabs)
  /\ pc = "errCanonical"
       => \E d \in DeltaSet(Deltas(anchorTabIdx)) :
            IsMode(Deltas(anchorTabIdx), d) /\ d <= 0

\* C22 witness: of three deltas the first inserted is the largest and the
\* returned width is the smaller one that occurs twice
C22_Witness ==
  /\ pc = "open"
  /\ Len(anchorTabIdx) = 4
  /\ Deltas(anchorTabIdx)[1] > Deltas(anchorTabIdx)[2]
  /\ Deltas(anchorTabIdx)[2] = Deltas(anchorTabIdx)[3]
  /\ canonicalTabs = Deltas(anchorTabIdx)[2]

----------------------------------------------------------------------------
(* C23: reset after every flush *)

\* the step writes a record: a finalization or a guardrail flush
Writes == Len(log') > Len(log)

\* C23 as claimed: every step that writes a record, by a finalization of any
\* outcome or by the guardrail, leaves the accumulator empty, the delimiter
\* count zero and pending-join false.
C23_FullResetAfterEveryFlush ==
  [][Writes => (cur' = <<>> /\ curTabs' = 0 /\ pendingNL' = FALSE)]_vars

\* C23 (amended): every step that writes a record leaves the accumulator
\* empty and the delimiter count zero and does not end the pass by an error;
\* after a finalization in the line loop and after a guardrail flush
\* pending-join is false as well, so that the next non-empty physical line
\* starts a new record with its own text, without a placeholder, and no
\* written record begins with a placeholder.  The end-of-stream flush leaves
\* pending-join as it was (true when the file ends in an empty line); no
\* line follows it.
C23_ResetAfterFlush ==
  /\ [][Writes => /\ cur' = <<>>
                  /\ curTabs' = 0
                  /\ pc' \in {"reconstruct", "endOut"}
                  /\ (pc' = "reconstruct" => pendingNL' = FALSE)]_vars
  /\ []((pc = "reconstruct" /\ cur = <<>>) => (curTabs = 0 /\ ~pendingNL))
  /\ [][(pc = "reconstruct" /\ cur = <<>> /\ i < Len(lines)
           /\ StripCR(lines[i + 1]) # <<>>)
          => IF Writes
             THEN log'[Len(log')].src = StripCR(lines[i + 1])
             ELSE cur' = StripCR(lines[i + 1])]_vars
  /\ [](\A j \in 1..Len(log) : log[j].src # <<>> /\ Head(log[j].src) # "bsl")

\* C23 witness: after a guardrail flush and after a finalization the pass
\* went on and wrote the next line as a record of its own
C23_Witness ==
  /\ pc = "done"
  /\ Len(log) = 3
  /\ log[1].via = "guard"
  /\ Finalized(2)
  /\ \A j \in 1..3 : log[j].src = StripCR(lines[j]) /\ log[j].at = j

----------------------------------------------------------------------------
(* C25: the finalization decision *)

\* |a - b|
AbsDiff(a, b) == IF a >= b THEN a - b ELSE b - a

\* the step finalizes a record
Finalizes == records' = records + 1

\* C25: a record finalized with delimiter count c went to the accepted
\* stream if and only if |c - T| <= paddingTolerance and to the rejected
\* stream otherwise, whether or not it passes for a fragment; every
\* finalization writes one chunk, to exactly one of the two streams.
C25_AcceptedIffWithinTolerance ==
  /\ [](\A j \in 1..Len(log) :
          Finalized(j)
            => /\ log[j].dest \in {"out", "rej"}
               /\ log[j].dest = "out"
                    <=> AbsDiff(log[j].tabs, canonicalTabs) <= paddingTolerance
               /\ log[j].via \in {"fragment", "malformed"}
                    <=> log[j].dest = "rej"
               /\ log[j].via = "fragment" <=>
                    /\ log[j].dest = "rej"
                    /\ \/ log[j].tabs < 10
                       \/ log[j].tabs < FloorDiv(canonicalTabs * 6, 10))
  /\ [][Finalizes
          => /\ Len(log') = Len(log) + 1
             /\ \/ Len(out') = Len(out) + 1 /\ rej' = rej
                \/ Len(rej') = Len(rej) + 1 /\ out' = out]_vars

\* C25 witness: one pass has accepted a record and rejected two beyond the
\* tolerance, one that passes for a fragment and one that does not
C25_Witness ==
  /\ pc = "done"
  /\ \E j \in 1..Len(log) : log[j].via = "fragment" /\ log[j].dest = "rej"
  /\ \E j \in 1..Len(log) : log[j].via = "malformed" /\ log[j].dest = "rej"
  /\ \E j \in 1..Len(log) : log[j].dest = "out"

----------------------------------------------------------------------------
(* C26: the accumulator between lines *)

\* C26: with T >= 1, whenever reconstruct is about to read a line or has
\* reached the end of the stream, the accumulator's count is below T; a
\* record finalized with fewer than T delimiters was finalized by the
\* end-of-stream flush, as the last write of the pass.
C26_BelowTBetweenLines ==
  (PastOpen /\ canonicalTabs >= 1)
    => /\ curTabs < canonicalTabs
       /\ \A j \in 1..Len(log) :
            (Finalized(j) /\ log[j].tabs < canonicalTabs)
              => /\ Flushed
                 /\ j = Len(log)
                 /\ log[j].at = Len(lines)
                 /\ i = Len(lines)

\* C26 witness: between two lines the accumulator holds a partial record of
\* two physical lines, one delimiter short of T
C26_Witness ==
  /\ pc = "reconstruct"
  /\ i = 2
  /\ Len(lines) = 3
  /\ canonicalTabs = 5
  /\ curTabs = 4
  /\ Len(NonEmpty(Pending)) = 2

----------------------------------------------------------------------------
(* C28: the discovered width is positive *)

\* C28: discoverCanonicalTabs returns only a width of 1 or more: when the
\* mode of the deltas is 0 or less it fails with an error and reconstruct is
\* not started (no stream opened, nothing written); Reconstruction after
\* Discovery runs with T >= 1.
C28_DiscoveredWidthPositive ==
  override = NoOverride
    => /\ InReconstruct => (canonicalTabs >= 1 /\ Len(anchorTabIdx) >= 2)
       /\ pc = "errCanonical"
            => /\ Len(anchorTabIdx) >= 2
               /\ ModeDelta(anchorTabIdx) <= 0
               /\ canonicalTabs = NoOverride
               /\ NoOutputTouched
       /\ (scanned = Len(lines) /\ pc # "discover" /\ Len(anchorTabIdx) >= 2
             /\ ModeDelta(anchorTabIdx) <= 0)
            => pc = "errCanonical"

\* C28 witness: Discovery has failed on a file of three anchors whose most
\* frequent delta is 0
C28_Witness ==
  /\ pc = "errCanonical"
  /\ Len(anchorTabIdx) = 3
  /\ ModeDelta(anchorTabIdx) = 0

----------------------------------------------------------------------------
(* C30: the tracked delimiter count *)

\* C30: the placeholder token holding no delimiter, curTabs is the number of
\* delimiter characters in the accumulator in every reachable state, an
\* empty accumulator has count zero, and every record was written with the
\* count of its text.
C30_CountMatchesText ==
  countTabs(newlineReplacement) = 0
    => /\ curTabs = countTabs(cur)
       /\ cur = <<>> => curTabs = 0
       /\ \A j \in 1..Len(log) : log[j].tabs = countTabs(log[j].src)

\* C30 witness: the accumulator holds two physical lines joined by the
\* placeholder, with delimiters from both
C30_Witness ==
  /\ pc = "reconstruct"
  /\ Len(NonEmpty(Pending)) = 2
  /\ CountJoins(cur) = 1
  /\ countTabs(Pending[1]) >= 1
  /\ curTabs > countTabs(Pending[1])

----------------------------------------------------------------------------
(* C27: completion of a driver call *)

\* C27 as claimed: once the driver call has completed, by returning or by
\* throwing the error of one file, no file is inside preprocessFile (none is
\* read, none has an output stream being written) and none waits to be
\* started.
C27_NothingRunsAfterCompletion ==
  returned.kind # "pending" => (Running = {} /\ queue = <<>>)

----------------------------------------------------------------------------
(* C24: output buffering *)

\* the bytes the stream d held when the newest chunk was written to it
BytesBeforeLast(d) ==
  IF Len(ChunksWritten(d)) > Consumed(d)
  THEN BufferedBytes(d) - StrLen(ChunksWritten(d)[Len(ChunksWritten(d))])
  ELSE 0

\* C24 as claimed: reconstruct suspends at its writes: nothing is written to
\* a stream that is full, so that what a stream buffers stays below its
\* high-water mark plus one chunk, and no further line is read and finalized
\* while a stream is full.
C24_SuspendsOnFullSink ==
  /\ [](\A d \in {"out", "rej"} : BytesBeforeLast(d) < writableHighWaterMark)
  /\ [][(pc = "reconstruct" /\ i' = i + 1)
          => \A d \in {"out", "rej"} : ~SinkFull(d)]_vars

----------------------------------------------------------------------------
(* C29: the outputs when preprocessFile resolves *)

\* C29 as claimed: when reconstruct has returned, the final sink of each
\* output has taken every chunk written and has finished, with or without
\* gzip in between; the rejected stream is ended only when the accepted
\* stream has ended.
C29_DeliveredWhenResolved ==
  /\ [](pc = "done" => \A d \in {"out", "rej"} : finished[d] /\ Untaken(d) = 0)
  /\ [](rejStream \in {"ending", "ended"} => outStream = "ended")

====
